---- MODULE Spec2Model ----
(***************************************************************************)
(* cobraflags: typed flags (FlagBase[T]) registered on cobra commands,     *)
(* bound once to viper under a resolved key, and CobraOnInitialize, which  *)
(* walks the command tree once to annotate usage texts and pre-seed flags  *)
(* from environment variables.                                             *)
(*                                                                         *)
(* Strings are sequences of one-character strings, so that upper-casing,   *)
(* character replacement and number parsing are computed, not assumed.     *)
(* The flag parser (pflag/cobra) and the configuration source (viper) are  *)
(* modelled at the calls the repository makes into them.                   *)
(***************************************************************************)
EXTENDS Integers, Sequences, FiniteSets, TLC

(***************************************************************************)
(* Strings                                                                 *)
(***************************************************************************)
LowerChars == <<"a","b","c","d","e","f","g","h","i","j","k","l","m",
                "n","o","p","q","r","s","t","u","v","w","x","y","z">>

UpperChars == <<"A","B","C","D","E","F","G","H","I","J","K","L","M",
                "N","O","P","Q","R","S","T","U","V","W","X","Y","Z">>

DigitChars == <<"0","1","2","3","4","5","6","7","8","9">>

IndexIn(c, seq) == IF \E i \in DOMAIN seq : seq[i] = c
                   THEN CHOOSE i \in DOMAIN seq : seq[i] = c
                   ELSE 0

\* strings.ToUpper, one character
UpperChar(c) == IF IndexIn(c, LowerChars) > 0
                THEN UpperChars[IndexIn(c, LowerChars)] ELSE c

\* strings.ToLower, one character
LowerChar(c) == IF IndexIn(c, UpperChars) > 0
                THEN LowerChars[IndexIn(c, UpperChars)] ELSE c

ToUpper(s) == [i \in DOMAIN s |-> UpperChar(s[i])]

ToLower(s) == [i \in DOMAIN s |-> LowerChar(s[i])]

\* strings.ReplaceAll(s, old, new) for one-character old and new
ReplaceAll(s, old, new) == [i \in DOMAIN s |-> IF s[i] = old THEN new ELSE s[i]]

\* strings.Split(s, sep) for a one-character separator
RECURSIVE Split(_, _)
Split(s, sep) ==
    IF \A i \in DOMAIN s : s[i] # sep
    THEN <<s>>
    ELSE LET k == CHOOSE i \in DOMAIN s :
                      s[i] = sep /\ \A j \in 1..(i - 1) : s[j] # sep
         IN  <<SubSeq(s, 1, k - 1)>> \o Split(SubSeq(s, k + 1, Len(s)), sep)

\* strings.Join(parts, sep)
RECURSIVE Join(_, _)
Join(parts, sep) ==
    IF Len(parts) = 0 THEN <<>>
    ELSE IF Len(parts) = 1 THEN parts[1]
    ELSE parts[1] \o sep \o Join(Tail(parts), sep)

IsDigits(s) == Len(s) > 0 /\ \A i \in DOMAIN s : IndexIn(s[i], DigitChars) > 0

RECURSIVE DigitsValue(_)
DigitsValue(s) ==
    IF Len(s) = 0 THEN 0
    ELSE 10 * DigitsValue(SubSeq(s, 1, Len(s) - 1))
         + (IndexIn(s[Len(s)], DigitChars) - 1)

\* strconv.ParseInt(s, 0, 64) on decimal input: an optional sign, then digits
ParseIntOk(s) ==
    \/ IsDigits(s)
    \/ Len(s) > 1 /\ s[1] \in {"-", "+"} /\ IsDigits(Tail(s))

ParseInt(s) ==
    IF IsDigits(s) THEN DigitsValue(s)
    ELSE IF s[1] = "-" THEN 0 - DigitsValue(Tail(s))
    ELSE DigitsValue(Tail(s))

\* strconv.Itoa
RECURSIVE NatString(_)
NatString(n) ==
    IF n < 10 THEN <<DigitChars[n + 1]>>
    ELSE NatString(n \div 10) \o <<DigitChars[(n % 10) + 1]>>

Itoa(n) == IF n < 0 THEN <<"-">> \o NatString(0 - n) ELSE NatString(n)

\* strconv.ParseBool
TrueStrings == { <<"1">>, <<"t">>, <<"T">>, <<"t","r","u","e">>,
                 <<"T","R","U","E">>, <<"T","r","u","e">> }

FalseStrings == { <<"0">>, <<"f">>, <<"F">>, <<"f","a","l","s","e">>,
                  <<"F","A","L","S","E">>, <<"F","a","l","s","e">> }

ParseBoolOk(s) == s \in TrueStrings \cup FalseStrings

\* strconv.FormatBool
FormatBool(b) == IF b THEN <<"t","r","u","e">> ELSE <<"f","a","l","s","e">>

(***************************************************************************)
(* Values: what viper hands out as `any`, what a pflag.Value holds, and    *)
(* what a typed getter returns.  One record shape for all of them.         *)
(***************************************************************************)
Val(t, s, n, b, l) == [t |-> t, s |-> s, n |-> n, b |-> b, l |-> l]

VNil == Val("nil", <<>>, 0, FALSE, <<>>)

VStr(s) == Val("str", s, 0, FALSE, <<>>)

VInt(n) == Val("int", <<>>, n, FALSE, <<>>)

VBool(b) == Val("bool", <<>>, 0, b, <<>>)

VList(l) == Val("list", <<>>, 0, FALSE, l)

\* the nil []string (Go's zero value of a slice)
VNilSlice == Val("nilslice", <<>>, 0, FALSE, <<>>)

\* cast.ToString
CastToString(v) ==
    CASE v.t = "str" -> v.s
      [] v.t = "int" -> Itoa(v.n)
      [] v.t = "bool" -> FormatBool(v.b)
      [] OTHER -> <<>>

\* cast.ToInt
CastToInt(v) ==
    CASE v.t = "str" -> IF ParseIntOk(v.s) THEN ParseInt(v.s) ELSE 0
      [] v.t = "int" -> v.n
      [] v.t = "bool" -> IF v.b THEN 1 ELSE 0
      [] OTHER -> 0

\* cast.ToBool
CastToBool(v) ==
    CASE v.t = "str" -> v.s \in TrueStrings
      [] v.t = "int" -> v.n # 0
      [] v.t = "bool" -> v.b
      [] OTHER -> FALSE

\* cast.ToUint16
CastToUint16(v) ==
    LET n == CastToInt(v)
    IN  IF n < 0 THEN 0 ELSE n % 65536

\* cast.ToUint8 of a uint16
CastToUint8(n) == n % 256

\* cast.ToStringSlice: a string is cut at white space (none in this alphabet)
CastToStringSlice(v) ==
    CASE v.t = "list" -> VList(v.l)
      [] v.t = "str" -> VList(IF v.s = <<>> THEN <<>> ELSE <<v.s>>)
      [] v.t = "int" -> VList(<<Itoa(v.n)>>)
      [] v.t = "bool" -> VList(<<FormatBool(v.b)>>)
      [] OTHER -> VNilSlice

\* pflag's readAsCSV on values without quotes
ReadAsCSV(s) == IF s = <<>> THEN <<>> ELSE Split(s, ",")

\* pflag.Value.String() of each flag type
ValueString(typ, v) ==
    CASE typ = "string" -> v.s
      [] typ \in {"int", "uint8"} -> Itoa(v.n)
      [] typ = "bool" -> FormatBool(v.b)
      [] typ = "stringSlice" -> <<"[">> \o Join(v.l, <<",">>) \o <<"]">>

\* pflag.Value.Set(s) succeeds
SetOk(typ, s) ==
    CASE typ = "string" -> TRUE
      [] typ = "int" -> ParseIntOk(s)
      [] typ = "uint8" -> IsDigits(s) /\ DigitsValue(s) <= 255
      [] typ = "bool" -> ParseBoolOk(s)
      [] typ = "stringSlice" -> TRUE

\* the value a successful pflag.Value.Set(s) leaves; a string slice replaces its
\* default on the first Set and appends on every later one
SetValue(typ, old, wasSet, s) ==
    CASE typ = "string" -> VStr(s)
      [] typ \in {"int", "uint8"} -> VInt(ParseInt(s))
      [] typ = "bool" -> VBool(s \in TrueStrings)
      [] typ = "stringSlice" ->
            VList(IF wasSet THEN old.l \o ReadAsCSV(s) ELSE ReadAsCSV(s))

(***************************************************************************)
(* The application: its flag declarations (FlagBase literals) and its      *)
(* command tree.                                                           *)
(***************************************************************************)
FlagIds == {"port", "cfg", "verbose", "host", "level", "items",
            "trace", "secret", "tag", "dup", "force", "sport", "raw", "help"}

\* the flags the application declares with pflag directly, not through this
\* package; for them FlagBase holds the arguments of the pflag call
DirectFlags == {"raw", "help"}

None == "none"

sTrue == <<"t","r","u","e">>

\* FlagBase[T] literals.  cmd is the command the application registers the flag on.
FlagBase ==
    [ port    |-> [Name |-> <<"p","o","r","t">>, ViperKey |-> <<>>,
                   Usage |-> <<"u">>, Required |-> FALSE, Persistent |-> FALSE,
                   Value |-> VInt(8080), typ |-> "int", cmd |-> "root"],
      cfg     |-> [Name |-> <<"c","-","f">>, ViperKey |-> <<"a",".","c">>,
                   Usage |-> <<"u">>, Required |-> FALSE, Persistent |-> FALSE,
                   Value |-> VStr(<<"d">>), typ |-> "string", cmd |-> "root"],
      verbose |-> [Name |-> <<"v">>, ViperKey |-> <<>>,
                   Usage |-> <<"u">>, Required |-> FALSE, Persistent |-> TRUE,
                   Value |-> VBool(FALSE), typ |-> "bool", cmd |-> "root"],
      host    |-> [Name |-> <<"d","-","h">>, ViperKey |-> <<>>,
                   Usage |-> <<"u">>, Required |-> TRUE, Persistent |-> FALSE,
                   Value |-> VStr(<<"h">>), typ |-> "string", cmd |-> "sub"],
      level   |-> [Name |-> <<"l">>, ViperKey |-> <<"s","-","l">>,
                   Usage |-> <<"u">>, Required |-> FALSE, Persistent |-> FALSE,
                   Value |-> VInt(1), typ |-> "uint8", cmd |-> "sub"],
      items   |-> [Name |-> <<"i">>, ViperKey |-> <<>>,
                   Usage |-> <<"u">>, Required |-> FALSE, Persistent |-> FALSE,
                   Value |-> VList(<< <<"a">>, <<"b">> >>), typ |-> "stringSlice",
                   cmd |-> "root"],
      trace   |-> [Name |-> <<"t","r">>, ViperKey |-> <<>>,
                   Usage |-> <<"u">>, Required |-> FALSE, Persistent |-> TRUE,
                   Value |-> VBool(FALSE), typ |-> "bool", cmd |-> "sub"],
      secret  |-> [Name |-> <<"s">>, ViperKey |-> <<"k",".","s">>,
                   Usage |-> <<"u">>, Required |-> TRUE, Persistent |-> FALSE,
                   Value |-> VStr(<<>>), typ |-> "string", cmd |-> "root"],
      tag     |-> [Name |-> <<"t">>, ViperKey |-> <<>>,
                   Usage |-> <<"u">>, Required |-> FALSE, Persistent |-> FALSE,
                   Value |-> VStr(<<"g">>), typ |-> "string", cmd |-> "other"],
      dup     |-> [Name |-> <<"p","o","r","t">>, ViperKey |-> <<>>,
                   Usage |-> <<"w">>, Required |-> FALSE, Persistent |-> FALSE,
                   Value |-> VInt(1), typ |-> "int", cmd |-> "root"],
      force   |-> [Name |-> <<"f">>, ViperKey |-> <<>>,
                   Usage |-> <<"u">>, Required |-> TRUE, Persistent |-> TRUE,
                   Value |-> VBool(FALSE), typ |-> "bool", cmd |-> "root"],
      sport   |-> [Name |-> <<"p","o","r","t">>, ViperKey |-> <<>>,
                   Usage |-> <<"u">>, Required |-> FALSE, Persistent |-> FALSE,
                   Value |-> VInt(2), typ |-> "int", cmd |-> "sub"],
      raw     |-> [Name |-> <<"r">>, ViperKey |-> <<>>,
                   Usage |-> <<"u">>, Required |-> FALSE, Persistent |-> FALSE,
                   Value |-> VStr(<<"w">>), typ |-> "string", cmd |-> "root"],
      help    |-> [Name |-> <<"h","e","l","p">>, ViperKey |-> <<>>,
                   Usage |-> <<"u">>, Required |-> FALSE, Persistent |-> FALSE,
                   Value |-> VBool(FALSE), typ |-> "bool", cmd |-> "sub"] ]

\* FlagSet.VisitAll visits in the order of the flag names
SortedByName == <<"cfg", "host", "force", "help", "items", "level", "port", "dup",
                  "sport", "raw", "secret", "tag", "trace", "verbose">>

\* what the command line passes for a flag of each type
CliArg(typ) ==
    CASE typ = "string" -> <<"c">>
      [] typ = "int" -> <<"7","0","7","0">>
      [] typ = "uint8" -> <<"7">>
      [] typ = "bool" -> sTrue
      [] typ = "stringSlice" -> <<"x">>

\* what an environment variable may hold for a flag of each type
EnvArgs(typ) ==
    CASE typ = "string" -> { <<>>, <<"e">> }
      [] typ = "int" -> { <<>>, <<"9","0","9","0">>, <<"z">> }
      [] typ = "uint8" -> { <<>>, <<"9">>, <<"3","0","0">> }
      [] typ = "bool" -> { <<>>, sTrue, <<"0">> }
      [] typ = "stringSlice" -> { <<>>, <<"y",",","z">> }

\* two independent root commands; the first has the subcommands sub and aux,
\* and sub has the subcommand leaf
Cmds == {"root", "sub", "leaf", "aux", "other"}

\* the commands of the first root that the application initializes and executes
Tree == {"root", "sub"}

\* cobra.Command.Parent()
Parent == [root |-> None, sub |-> "root", leaf |-> "sub", aux |-> "root",
           other |-> None]

\* cobra.Command.Commands()
Commands == [root |-> <<"sub", "aux">>, sub |-> <<"leaf">>, leaf |-> <<>>,
             aux |-> <<>>, other |-> <<>>]

Prefixes == { <<"a","p","p">> }

\* the prefix each root is initialized with when both are set up
RootPrefix == [root |-> <<"a","p","p">>, other |-> <<"b">>]

\* the chain of ancestors of a command, nearest first
RECURSIVE Ancestors(_)
Ancestors(c) == IF Parent[c] = None THEN <<>> ELSE <<Parent[c]>> \o Ancestors(Parent[c])

Range(seq) == { seq[i] : i \in DOMAIN seq }

(***************************************************************************)
(* FlagBase.getViperKey and the environment-variable names                 *)
(***************************************************************************)
\* a plausible slip: the custom key is ignored
getViperKeyNameOnly(f) == FlagBase[f].Name

getViperKey(f) ==
    IF FlagBase[f].ViperKey # <<>> THEN FlagBase[f].ViperKey ELSE FlagBase[f].Name

\* a plausible slip: only '-' is replaced, '.' is kept
EnvVarNameDashOnly(envPrefix, viperKey) ==
    ToUpper(envPrefix \o <<"_">> \o ReplaceAll(viperKey, "-", "_"))

\* PresetRequiredFlags: the name shown in the usage text
EnvVarName(envPrefix, viperKey) ==
    ToUpper(envPrefix \o <<"_">>
            \o ReplaceAll(ReplaceAll(viperKey, ".", "_"), "-", "_"))

\* fmt.Sprintf("%s [env: %s]", f.Usage, envVarName)
NewUsage(usage, envVarName) ==
    usage \o <<" ","[","e","n","v",":"," ">> \o envVarName \o <<"]">>

\* viper.mergeWithEnvPrefix
MergeWithEnvPrefix(envPrefix, in) ==
    IF envPrefix # <<>> THEN ToUpper(envPrefix \o <<"_">> \o in) ELSE ToUpper(in)

\* strings.NewReplacer("-", "_").Replace, when the replacer is installed
EnvKeyReplace(replacer, key) == IF replacer THEN ReplaceAll(key, "-", "_") ELSE key

\* every key a flag of the application can be bound or looked up under
Keys == { ToLower(FlagBase[f].Name) : f \in FlagIds }
        \cup { ToLower(getViperKey(f)) : f \in FlagIds }

\* the environment variables the application's user may set: for each flag the
\* name its usage text shows and the name viper consults
EnvNamesOf(f) ==
    { EnvVarName(p, getViperKey(f)) : p \in Prefixes }
    \cup { EnvKeyReplace(TRUE, MergeWithEnvPrefix(p, ToLower(getViperKey(f)))) :
           p \in Prefixes }

EnvNames == UNION { EnvNamesOf(f) : f \in FlagIds }

(***************************************************************************)
(* State                                                                   *)
(***************************************************************************)
VARIABLES
    app,           \* the flags the application declares
    started,       \* the application has left its set-up (declarations, environment)
    env,           \* the process environment: name -> [set, val]
    flag,          \* FlagBase.flag: the flag is registered (handle non-nil)
    hValue,        \* pflag.Flag.Value of each handle
    hChanged,      \* pflag.Flag.Changed
    hUsage,        \* pflag.Flag.Usage
    hAnnot,        \* pflag.Flag.Annotations["viper-key"], <<>> when absent
    hRequired,     \* the required annotation cobra checks before the run body
    cmdFlags,      \* cobra.Command.Flags(): handles in c.flags
    cmdPFlags,     \* cobra.Command.PersistentFlags(): handles in c.pflags
    vPflags,       \* viper: key -> bound handle
    vAutoEnv,      \* viper.AutomaticEnv() was called
    vEnvPrefix,    \* viper.SetEnvPrefix
    vReplacer,     \* viper.SetEnvKeyReplacer("-" -> "_") is installed
    initOnceMap,   \* command -> state of its sync.Once
    initializers,  \* cobra.OnInitialize list: closures [envPrefix, command]
    helpFunc,      \* command -> the wrappers of its help function, outermost first
    bindOnce,      \* FlagBase.bindOnce is consumed
    pc,            \* where the main goroutine is inside Execute
    last,          \* what the last getter call did and returned
    bindCalls,     \* number of viper.BindPFlag calls issued by the flag's getters
    initRuns,      \* number of times the initialization body of a command ran
    cliPassed,     \* the flag was passed on a command line
    thr,           \* goroutines calling getters concurrently
    bindMu,        \* the mutex inside FlagBase.bindOnce: its holder, 0 when free
    initOnceMutex, \* initOnceMutex: the goroutine that holds it, 0 when free
    onceObjs       \* per command: the sync.Once objects made, the one the map
                   \* holds (0 when none), the ones callers obtained

vars == <<app, started, env, flag, hValue, hChanged, hUsage, hAnnot, hRequired,
          cmdFlags, cmdPFlags, vPflags, vAutoEnv, vEnvPrefix, vReplacer,
          initOnceMap, initializers, helpFunc, bindOnce, pc, last,
          bindCalls, initRuns, cliPassed, thr, bindMu, initOnceMutex, onceObjs>>

registryVars == <<initOnceMutex, onceObjs>>

handleVars == <<hValue, hChanged, hUsage, hAnnot, hRequired>>

cmdVars == <<cmdFlags, cmdPFlags>>

viperCfg == <<vAutoEnv, vEnvPrefix, vReplacer>>

initVars == <<initOnceMap, initializers, helpFunc>>

ghostVars == <<bindCalls, initRuns, cliPassed>>

Unset == [set |-> FALSE, val |-> <<>>]

Idle == [at |-> "idle", target |-> None, idx |-> 0, back |-> "idle",
         envPrefix |-> <<>>, command |-> None, walk |-> <<>>, visited |-> {},
         chain |-> <<>>, via |-> "none", done |-> <<>>]

NoCall == [op |-> "none", f |-> None, fn |-> "nil", vd |-> "nil",
           calledFn |-> FALSE, calledVd |-> FALSE, v |-> VNil, err |-> "nil",
           raw |-> VNil, bound |-> FALSE, panic |-> FALSE]

(***************************************************************************)
(* viper                                                                   *)
(***************************************************************************)
\* os.LookupEnv
LookupEnv(name) ==
    IF name \in DOMAIN env /\ env[name].set THEN env[name] ELSE Unset

\* a plausible slip: an empty variable counts as set
GetEnvOkAllowEmpty(key) == LookupEnv(EnvKeyReplace(vReplacer, key)).set

\* viper.getEnv: an empty variable counts as absent
GetEnvOk(key) ==
    LET e == LookupEnv(EnvKeyReplace(vReplacer, key)) IN e.set /\ e.val # <<>>

GetEnvVal(key) == LookupEnv(EnvKeyReplace(vReplacer, key)).val

\* viper.isPathShadowedInFlatMap(path, v.pflags)
ShadowedInFlatMap(path, pfl) ==
    \E i \in 1..(Len(path) - 1) :
        LET parentKey == Join(SubSeq(path, 1, i), <<".">>)
        IN  parentKey \in DOMAIN pfl /\ pfl[parentKey] # None

\* viper.isPathShadowedInAutoEnv(path)
ShadowedInAutoEnv(path) ==
    \E i \in 1..(Len(path) - 1) :
        GetEnvOk(MergeWithEnvPrefix(vEnvPrefix, Join(SubSeq(path, 1, i), <<".">>)))

\* viper.find, the pflag branch: the flag's value by its pflag type
FlagAny(f, vals) ==
    LET typ == FlagBase[f].typ
        str == ValueString(typ, vals[f])
    IN  CASE typ = "int" -> VInt(CastToInt(VStr(str)))
          [] typ = "bool" -> VBool(CastToBool(VStr(str)))
          [] typ = "stringSlice" ->
                VList(ReadAsCSV(SubSeq(str, 2, Len(str) - 1)))
          [] OTHER -> VStr(str)

\* viper.find(lcaseKey, flagDefault) with the sources this layer feeds:
\* changed flags, then the automatic environment, then the flag's own value
Find(key, flagDefault, pfl, vals, chg) ==
    CHOOSE val \in {
        LET path == Split(lcaseKey, ".")
            nested == Len(path) > 1
            bound == lcaseKey \in DOMAIN pfl /\ pfl[lcaseKey] # None
            envKey == MergeWithEnvPrefix(vEnvPrefix, lcaseKey)
        IN  IF bound /\ chg[pfl[lcaseKey]] THEN FlagAny(pfl[lcaseKey], vals)
            ELSE IF nested /\ ShadowedInFlatMap(path, pfl) THEN VNil
            ELSE IF vAutoEnv /\ GetEnvOk(envKey) THEN VStr(GetEnvVal(envKey))
            ELSE IF vAutoEnv /\ nested /\ ShadowedInAutoEnv(path) THEN VNil
            ELSE IF flagDefault /\ bound THEN FlagAny(pfl[lcaseKey], vals)
            ELSE VNil : lcaseKey \in { ToLower(key) } } : TRUE

\* viper.IsSet
IsSet(key, pfl, vals, chg) == Find(key, FALSE, pfl, vals, chg) # VNil

\* viper.GetString
GetString(key, pfl, vals, chg) == CastToString(Find(key, TRUE, pfl, vals, chg))

\* viper.BindPFlag(key, flag)
BindPFlag(pfl, key, f) == [pfl EXCEPT ![ToLower(key)] = f]

\* viper.BindPFlags(flags): every flag of the set, under its name
BindPFlags(pfl, handles) ==
    [k \in DOMAIN pfl |->
        IF \E f \in handles : ToLower(FlagBase[f].Name) = k
        THEN CHOOSE f \in handles : ToLower(FlagBase[f].Name) = k
        ELSE pfl[k]]

(***************************************************************************)
(* Bounds                                                                  *)
(***************************************************************************)
\* calls of CobraOnInitialize
MaxInitCalls == 2

\* elements a string-slice flag may hold before the command line adds more
MaxListLen == 2

\* goroutines that call getters concurrently
MaxThreads == 2

Threads == 1..MaxThreads

ThreadIdle == [at |-> "idle", f |-> None, v |-> VNil, slow |-> FALSE]

(***************************************************************************)
(* Set-up: declarations and the process environment                        *)
(***************************************************************************)
\* the applications considered: each declares one of these flags
Apps == { {f} : f \in {"port", "cfg", "verbose", "host", "level", "items"} }

\* the state before the application registers anything
InitOf(apps) ==
    /\ app \in apps
    /\ started = FALSE
    /\ env = [n \in EnvNames |-> Unset]
    /\ flag = [f \in FlagIds |-> FALSE]
    /\ hValue = [f \in FlagIds |-> VNil]
    /\ hChanged = [f \in FlagIds |-> FALSE]
    /\ hUsage = [f \in FlagIds |-> <<>>]
    /\ hAnnot = [f \in FlagIds |-> <<>>]
    /\ hRequired = [f \in FlagIds |-> FALSE]
    /\ cmdFlags = [c \in Cmds |-> {}]
    /\ cmdPFlags = [c \in Cmds |-> {}]
    /\ vPflags = [k \in Keys |-> None]
    /\ vAutoEnv = FALSE
    /\ vEnvPrefix = <<>>
    /\ vReplacer = FALSE
    /\ initOnceMap = [c \in Cmds |-> "absent"]
    /\ initializers = <<>>
    /\ helpFunc = [c \in Cmds |-> <<>>]
    /\ bindOnce = [f \in FlagIds |-> FALSE]
    /\ pc = Idle
    /\ last = NoCall
    /\ bindCalls = [f \in FlagIds |-> 0]
    /\ initRuns = [c \in Cmds |-> 0]
    /\ cliPassed = [f \in FlagIds |-> FALSE]
    /\ thr = [t \in Threads |-> ThreadIdle]
    /\ bindMu = [f \in FlagIds |-> 0]
    /\ initOnceMutex = 0
    /\ onceObjs = [c \in Cmds |-> [made |-> 0, held |-> 0, got |-> {}]]

Init == InitOf(Apps)

Registered == { f \in FlagIds : flag[f] }

ThreadsIdle == \A t \in Threads : thr[t].at = "idle"

\* a plausible slip: an unexpected error is dropped
noErrorIgnores(err) == FALSE

\* noError(err) panics (after logging) when err is not nil
noError(err) == err # "nil"

\* a plausible slip: a name that is taken is not noticed
RedefinedNever(f, flags) == FALSE

\* pflag's AddFlag panics when the flag-set already holds a flag of that name
Redefined(f, flags) == \E g \in flags : FlagBase[g].Name = FlagBase[f].Name

\* cobra's cmd.MarkFlagRequired(name): the name is looked up in cmd.Flags(),
\* which does not hold the persistent flags before they are merged
MarkFlagRequired(f, flags) ==
    IF \E g \in flags : FlagBase[g].Name = FlagBase[f].Name
    THEN "nil" ELSE "no such flag"

\* (s *XFlag) Register(cmd): add to the persistent or the regular flag-set, mark
\* required, keep the handle, store the resolved key as an annotation.  A panic
\* leaves what the statements before it have done.
Register(f) ==
    LET cmd == FlagBase[f].cmd
        s == FlagBase[f]
        target == IF s.Persistent THEN cmdPFlags[cmd] ELSE cmdFlags[cmd]
        added == ~Redefined(f, target)
        flagsAfter == IF s.Persistent THEN cmdFlags[cmd] ELSE cmdFlags[cmd] \cup {f}
        err == IF s.Required THEN MarkFlagRequired(f, flagsAfter) ELSE "nil"
        marked == { g \in flagsAfter : s.Required /\ FlagBase[g].Name = s.Name }
        panics == ~added \/ noError(err)
    IN  /\ ~started
        /\ ~flag[f]
        /\ f \in app \ DirectFlags
        /\ cmdPFlags' = IF added /\ s.Persistent
                         THEN [cmdPFlags EXCEPT ![cmd] = @ \cup {f}] ELSE cmdPFlags
        /\ cmdFlags' = IF added /\ ~s.Persistent
                        THEN [cmdFlags EXCEPT ![cmd] = @ \cup {f}] ELSE cmdFlags
        /\ hValue' = IF added THEN [hValue EXCEPT ![f] = s.Value] ELSE hValue
        /\ hUsage' = IF added THEN [hUsage EXCEPT ![f] = s.Usage] ELSE hUsage
        /\ hRequired' = IF added
                         THEN [g \in FlagIds |-> hRequired[g] \/ g \in marked]
                         ELSE hRequired
        /\ flag' = [flag EXCEPT ![f] = ~panics]
        /\ hAnnot' = IF panics THEN hAnnot ELSE [hAnnot EXCEPT ![f] = getViperKey(f)]
        /\ last' = [NoCall EXCEPT !.op = "Register", !.f = f, !.panic = panics]
        /\ UNCHANGED <<app, started, env, hChanged, vPflags, viperCfg, initVars,
                       bindOnce, pc, ghostVars, thr, bindMu, registryVars>>

\* a flag that carries no annotation of this package: the application declares
\* it on the command's flag-set with pflag itself (cmd.Flags().String(...))
AddFlag(f) ==
    LET cmd == FlagBase[f].cmd
    IN  /\ ~started
        /\ f \in app \cap DirectFlags
        /\ f \notin cmdFlags[cmd]
        /\ ~Redefined(f, cmdFlags[cmd])
        /\ cmdFlags' = [cmdFlags EXCEPT ![cmd] = @ \cup {f}]
        /\ hValue' = [hValue EXCEPT ![f] = FlagBase[f].Value]
        /\ hUsage' = [hUsage EXCEPT ![f] = FlagBase[f].Usage]
        /\ UNCHANGED <<app, started, env, flag, hChanged, hAnnot, hRequired,
                       cmdPFlags, vPflags, viperCfg, initVars, bindOnce, pc, last,
                       ghostVars, thr, bindMu, registryVars>>

\* the handles declared with pflag directly
Direct == { f \in DirectFlags : f \in cmdFlags[FlagBase[f].cmd] }

\* os.Setenv before the program proper starts
Setenv(name, val) ==
    /\ ~started
    /\ ~env[name].set
    /\ \E f \in Registered \cup Direct : name \in EnvNamesOf(f) /\ val \in EnvArgs(FlagBase[f].typ)
    /\ env' = [env EXCEPT ![name] = [set |-> TRUE, val |-> val]]
    /\ UNCHANGED <<app, started, flag, handleVars, cmdVars, vPflags, viperCfg, initVars,
                   bindOnce, pc, last, ghostVars, thr, bindMu, registryVars>>

(***************************************************************************)
(* CobraOnInitialize                                                       *)
(***************************************************************************)
\* cobra.Command.HelpFunc(): the command's own help function, else its parent's
RECURSIVE HelpFuncOf(_)
HelpFuncOf(c) ==
    IF helpFunc[c] # <<>> THEN helpFunc[c]
    ELSE IF Parent[c] # None THEN HelpFuncOf(Parent[c])
    ELSE <<>>

\* a plausible slip: one process-wide latch instead of one per command
OnceKeyGlobal(command) == "root"

\* initOnceMap is keyed by the command's identity (its pointer)
OnceKey(command) == command

\* CobraOnInitialize, under initOnceMutex: get or create the command's sync.Once
GetOrCreateOnce(once) == IF once = "absent" THEN "new" ELSE once

\* a plausible slip: the help function is left as it was
SetHelpFuncKeepsOriginal(cobraInit, fn) == fn

\* command.SetHelpFunc: the new help function calls cobraInit, then the old one
SetHelpFunc(cobraInit, fn) == <<cobraInit>> \o fn

\* the sync.Once objects of one command after a caller found none in the map
\* and stored a new one
StoreOnce(o) == [o EXCEPT !.made = @ + 1, !.held = o.made + 1]

\* the caller leaves the critical section with the latch initOnce points to
ObtainOnce(o, once) == [o EXCEPT !.got = @ \cup {once}]

CobraOnInitialize(envPrefix, command) ==
    LET cobraInit == [envPrefix |-> envPrefix, command |-> command]
        o == onceObjs[OnceKey(command)]
        stored == IF o.held = 0 THEN StoreOnce(o) ELSE o
    IN  /\ pc.at = "idle"
        /\ ThreadsIdle
        /\ Len(initializers) < MaxInitCalls
        /\ started' = TRUE
        /\ initOnceMap' = [initOnceMap EXCEPT ![OnceKey(command)] = GetOrCreateOnce(@)]
        /\ onceObjs' = [onceObjs EXCEPT
                          ![OnceKey(command)] = ObtainOnce(stored, stored.held)]
        /\ helpFunc' = [helpFunc EXCEPT
                          ![command] = SetHelpFunc(cobraInit, HelpFuncOf(command))]
        /\ initializers' = Append(initializers, cobraInit)
        /\ last' = NoCall
        /\ UNCHANGED <<app, env, flag, handleVars, cmdVars, vPflags, viperCfg,
                       bindOnce, pc, ghostVars, thr, bindMu, initOnceMutex>>

(***************************************************************************)
(* The tree walk of one initialization                                     *)
(***************************************************************************)
\* a plausible slip: nothing is excluded
noEnvFlagsNone == {}

noEnvFlags == { <<"h","e","l","p">> }

\* a plausible slip: the stored key is ignored
AnnotatedKeyNameOnly(annotations, name) == name

\* viperKey := f.Name, replaced by the handle's viperKeyAnnotation if it has one
AnnotatedKey(annotations, name) == IF annotations # <<>> THEN annotations ELSE name

\* the body of cmd.Flags().VisitAll in PresetRequiredFlags, for one handle;
\* st carries the handles' values, Changed marks, usage texts and the visited set
PresetFlag(st, f, envPrefix, pfl) ==
    IF f \in st.visited THEN st
    ELSE IF FlagBase[f].Name \in noEnvFlags
    THEN [st EXCEPT !.visited = @ \cup {f}]
    ELSE
      LET viperKey == AnnotatedKey(hAnnot[f], FlagBase[f].Name)
          envVarName == EnvVarName(envPrefix, viperKey)
          typ == FlagBase[f].typ
          str == GetString(viperKey, pfl, st.vals, st.chg)
          hinted == [st EXCEPT !.visited = @ \cup {f},
                               !.usage[f] = NewUsage(@, envVarName)]
      IN  IF IsSet(viperKey, pfl, st.vals, st.chg) /\ str # <<>> /\ SetOk(typ, str)
          THEN [hinted EXCEPT !.vals[f] = SetValue(typ, @, st.chg[f], str),
                              !.chg[f] = TRUE]
          ELSE hinted

RECURSIVE VisitAll(_, _, _, _, _)
VisitAll(st, order, handles, envPrefix, pfl) ==
    IF order = <<>> THEN st
    ELSE CHOOSE r \in { VisitAll(nxt, Tail(order), handles, envPrefix, pfl) :
                          nxt \in { IF Head(order) \in handles
                                    THEN PresetFlag(st, Head(order), envPrefix, pfl)
                                    ELSE st } } : TRUE

\* PresetRequiredFlags(envPrefix, flags, cmd): bulk-bind the command's flag-set,
\* then visit every flag of it
PresetRequiredFlags(envPrefix, visited, cmd) ==
    CHOOSE r \in { VisitAll([visited |-> visited, usage |-> hUsage,
                              vals |-> hValue, chg |-> hChanged, pfl |-> pfl],
                             order, cmdFlags[cmd], envPrefix, pfl) :
                    pfl \in { BindPFlags(vPflags, cmdFlags[cmd]) },
                    order \in { SelectSeq(SortedByName,
                                          LAMBDA f : f \in cmdFlags[cmd]) } } : TRUE

(***************************************************************************)
(* Execute: cobra parses the command line, then either renders help or     *)
(* runs the on-initialize hooks, checks the required flags and runs the    *)
(* body                                                                    *)
(***************************************************************************)
\* cobra's mergePersistentFlags: the flag-set a command parses with.  Execute
\* merges the target and, while it resolves the target, every command above it
MergedFlags(target) ==
    cmdFlags[target] \cup cmdPFlags[target]
    \cup UNION { cmdPFlags[a] : a \in Range(Ancestors(target)) }

ExecuteStart(target, passed, help) ==
    /\ pc.at = "idle"
    /\ ThreadsIdle
    /\ passed \subseteq MergedFlags(target)
    /\ \A f \in passed :
          FlagBase[f].typ = "stringSlice" => Len(hValue[f].l) <= MaxListLen
    /\ started' = TRUE
    /\ cmdFlags' = [c \in Cmds |->
                      IF c = target \/ c \in Range(Ancestors(target))
                      THEN MergedFlags(c) ELSE cmdFlags[c]]
    /\ hValue' = [f \in FlagIds |->
                    IF f \in passed
                    THEN SetValue(FlagBase[f].typ, hValue[f], hChanged[f],
                                  CliArg(FlagBase[f].typ))
                    ELSE hValue[f]]
    /\ hChanged' = [f \in FlagIds |-> hChanged[f] \/ f \in passed]
    /\ cliPassed' = [f \in FlagIds |-> cliPassed[f] \/ f \in passed]
    /\ pc' = IF help
             THEN [Idle EXCEPT !.at = "help", !.target = target,
                               !.chain = HelpFuncOf(target)]
             ELSE [Idle EXCEPT !.at = "preRun", !.target = target, !.idx = 1]
    /\ last' = NoCall
    /\ UNCHANGED <<app, env, flag, hUsage, hAnnot, hRequired, cmdPFlags, vPflags,
                   viperCfg, initVars, bindOnce, bindCalls, initRuns, thr, bindMu, registryVars>>

\* the cobraInit closure the main goroutine is about to call
AtClosure ==
    \/ pc.at = "preRun" /\ pc.idx <= Len(initializers)
    \/ pc.at = "help" /\ pc.chain # <<>>

Closure == IF pc.at = "preRun" THEN initializers[pc.idx] ELSE Head(pc.chain)

\* the position after the closure returned
Returned(p) ==
    IF p.at = "preRun" THEN [p EXCEPT !.idx = @ + 1] ELSE [p EXCEPT !.chain = Tail(@)]

\* a plausible slip: the latch is ignored and the body runs on every trigger
OnceFreshAlways(once) == TRUE

\* sync.Once.Do runs its function only on the first call
OnceFresh(once) == once = "new"

\* cobraInit, first call for its command: initOnce.Do enters the body and sets
\* up viper; the tree walk follows in PostInitCommands
CobraInitBegin ==
    /\ AtClosure
    /\ OnceFresh(initOnceMap[OnceKey(Closure.command)])
    /\ initOnceMap' = [initOnceMap EXCEPT ![OnceKey(Closure.command)] = "running"]
    /\ vAutoEnv' = TRUE
    /\ vEnvPrefix' = Closure.envPrefix
    /\ vReplacer' = TRUE
    /\ initRuns' = [initRuns EXCEPT ![Closure.command] = @ + 1]
    /\ pc' = [pc EXCEPT !.at = "init", !.back = pc.at, !.via = pc.at,
                        !.envPrefix = Closure.envPrefix,
                        !.command = Closure.command,
                        !.walk = <<Closure.command>>, !.visited = {},
                        !.done = <<>>]
    /\ UNCHANGED <<app, started, env, flag, handleVars, cmdVars, vPflags,
                   initializers, helpFunc, bindOnce, last, bindCalls, cliPassed, thr, bindMu, registryVars>>

\* cobraInit when the command's sync.Once is already consumed: nothing happens
CobraInitSkip ==
    /\ AtClosure
    /\ ~OnceFresh(initOnceMap[OnceKey(Closure.command)])
    /\ pc' = Returned(pc)
    /\ UNCHANGED <<app, started, env, flag, handleVars, cmdVars, vPflags, viperCfg,
                   initVars, bindOnce, last, ghostVars, thr, bindMu, registryVars>>

\* a plausible slip: the subcommands are put off until the siblings are done
RecurseLater(subCommands, rest) == rest \o subCommands

\* PostInitCommands calls itself on cmd.Commands() before it goes on with the
\* rest of its own slice
Recurse(subCommands, rest) == subCommands \o rest

\* PostInitCommands: the next command of the depth-first walk, then its children
PostInitCommands ==
    /\ pc.at = "init"
    /\ pc.walk # <<>>
    /\ \E r \in { PresetRequiredFlags(pc.envPrefix, pc.visited, Head(pc.walk)) } :
           /\ vPflags' = r.pfl
           /\ hValue' = r.vals
           /\ hChanged' = r.chg
           /\ hUsage' = r.usage
           /\ pc' = [pc EXCEPT !.visited = r.visited,
                               !.walk = Recurse(Commands[Head(pc.walk)],
                                                Tail(pc.walk)),
                               !.done = Append(@, Head(pc.walk))]
    /\ UNCHANGED <<app, started, env, flag, hAnnot, hRequired, cmdVars, viperCfg,
                   initVars, bindOnce, last, ghostVars, thr, bindMu, registryVars>>

\* the walk is over: initOnce.Do returns and the latch is consumed
CobraInitEnd ==
    /\ pc.at = "init"
    /\ pc.walk = <<>>
    /\ initOnceMap' = [initOnceMap EXCEPT ![OnceKey(pc.command)] = "done"]
    /\ pc' = Returned([pc EXCEPT !.at = pc.back, !.back = "idle",
                                 !.envPrefix = <<>>, !.command = None,
                                 !.visited = {}, !.done = <<>>])
    /\ UNCHANGED <<app, started, env, flag, handleVars, cmdVars, vPflags, viperCfg,
                   initializers, helpFunc, bindOnce, last, ghostVars, thr, bindMu, registryVars>>

\* cobra's ValidateRequiredFlags on the target's flag-set
MissingRequired(target) ==
    { f \in cmdFlags[target] : hRequired[f] /\ ~hChanged[f] }

\* all hooks ran: a missing required flag ends the execution with an error,
\* otherwise the run body is entered
PreRunEnd ==
    /\ pc.at = "preRun"
    /\ pc.idx > Len(initializers)
    /\ pc' = IF MissingRequired(pc.target) # {}
             THEN Idle ELSE [pc EXCEPT !.at = "run"]
    /\ last' = IF MissingRequired(pc.target) # {}
               THEN [NoCall EXCEPT !.op = "Execute",
                                   !.f = CHOOSE f \in MissingRequired(pc.target) : TRUE,
                                   !.err = "required flag(s) not set"]
               ELSE last
    /\ UNCHANGED <<app, started, env, flag, handleVars, cmdVars, vPflags, viperCfg,
                   initVars, bindOnce, bindCalls, initRuns, cliPassed, thr, bindMu, registryVars>>

\* the run body returns
RunEnd ==
    /\ pc.at = "run"
    /\ ThreadsIdle
    /\ pc' = Idle
    /\ last' = [NoCall EXCEPT !.op = "Execute"]
    /\ UNCHANGED <<app, started, env, flag, handleVars, cmdVars, vPflags, viperCfg,
                   initVars, bindOnce, ghostVars, thr, bindMu, registryVars>>

\* every wrapper ran its cobraInit: the original help function renders
HelpRender ==
    /\ pc.at = "help"
    /\ pc.chain = <<>>
    /\ pc' = Idle
    /\ UNCHANGED <<app, started, env, flag, handleVars, cmdVars, vPflags, viperCfg,
                   initVars, bindOnce, last, ghostVars, thr, bindMu, registryVars>>

(***************************************************************************)
(* Getters                                                                 *)
(***************************************************************************)
\* what ValidateFunc / Validator may be on a call: absent, or a hook that
\* accepts or rejects the value it is given
Hooks == {"nil", "accept", "reject"}

\* the zero value of the flag's type T
Zero(typ) ==
    CASE typ = "string" -> VStr(<<>>)
      [] typ \in {"int", "uint8"} -> VInt(0)
      [] typ = "bool" -> VBool(FALSE)
      [] typ = "stringSlice" -> VNilSlice

\* viper.GetString / GetInt / GetBool / GetUint16 (+ cast.ToUint8) / GetStringSlice
\* under the flag's key
ViperGetKey(viperKey, typ, pfl) ==
    LET any == Find(viperKey, TRUE, pfl, hValue, hChanged)
    IN  CASE typ = "string" -> VStr(CastToString(any))
          [] typ = "int" -> VInt(CastToInt(any))
          [] typ = "bool" -> VBool(CastToBool(any))
          [] typ = "uint8" -> VInt(CastToUint8(CastToUint16(any)))
          [] typ = "stringSlice" -> CastToStringSlice(any)

\* the read of a getter: viperKey := getViperKey(), then viper.GetX(viperKey)
ViperGet(f, pfl) == ViperGetKey(getViperKey(f), FlagBase[f].typ, pfl)

\* a plausible slip: Validator is consulted only when ValidateFunc is nil
validateFuncOnly(typ, fn, vd, v) ==
    IF fn # "nil"
    THEN [result |-> IF fn = "reject" THEN Zero(typ) ELSE v,
          err |-> IF fn = "reject" THEN "ValidateFunc error" ELSE "nil",
          calledFn |-> TRUE, calledVd |-> FALSE]
    ELSE [result |-> IF vd = "reject" THEN Zero(typ) ELSE v,
          err |-> IF vd = "reject" THEN "Validator error" ELSE "nil",
          calledFn |-> FALSE, calledVd |-> vd # "nil"]

\* a plausible slip: a failed validation hands back the value instead of zero
validateKeepsValue(typ, fn, vd, v) ==
    IF fn = "reject"
    THEN [result |-> v, err |-> "ValidateFunc error",
          calledFn |-> TRUE, calledVd |-> FALSE]
    ELSE IF vd = "reject"
    THEN [result |-> v, err |-> "Validator error",
          calledFn |-> fn # "nil", calledVd |-> TRUE]
    ELSE [result |-> v, err |-> "nil",
          calledFn |-> fn # "nil", calledVd |-> vd # "nil"]

\* (s *FlagBase[T]) validate(v): ValidateFunc first, then Validator
validate(typ, fn, vd, v) ==
    IF fn # "nil" /\ fn = "reject"
    THEN [result |-> Zero(typ), err |-> "ValidateFunc error",
          calledFn |-> TRUE, calledVd |-> FALSE]
    ELSE IF vd # "nil" /\ vd = "reject"
    THEN [result |-> Zero(typ), err |-> "Validator error",
          calledFn |-> fn # "nil", calledVd |-> TRUE]
    ELSE [result |-> v, err |-> "nil",
          calledFn |-> fn # "nil", calledVd |-> vd # "nil"]

\* a plausible slip: the plain getter validates like the E variant
GetXValidating(f, fn, vd, raw) ==
    LET r == validate(FlagBase[f].typ, fn, vd, raw)
    IN  [v |-> r.result, err |-> r.err, calledFn |-> r.calledFn,
         calledVd |-> r.calledVd]

\* GetX returns what viper holds; the hooks are not looked at
GetX(f, fn, vd, raw) ==
    [v |-> raw, err |-> "nil", calledFn |-> FALSE, calledVd |-> FALSE]

\* GetXE: the validation result on failure, the value read otherwise
GetXE(f, fn, vd, raw) ==
    LET r == validate(FlagBase[f].typ, fn, vd, raw)
    IN  [v |-> IF r.err # "nil" THEN r.result ELSE raw, err |-> r.err,
         calledFn |-> r.calledFn, calledVd |-> r.calledVd]

\* a plausible slip: the getter binds on every call
BindNeededAlways(done) == TRUE

\* s.bindOnce.Do: the bind runs only while the latch is unconsumed
BindNeeded(done) == ~done

\* one getter call of the main goroutine: bind once, read, and (E) validate
Getter(op, f, fn, vd) ==
    LET pfl == IF BindNeeded(bindOnce[f])
               THEN BindPFlag(vPflags, getViperKey(f), f) ELSE vPflags
        raw == ViperGet(f, pfl)
        r == IF op = "GetE" THEN GetXE(f, fn, vd, raw) ELSE GetX(f, fn, vd, raw)
    IN  /\ pc.at \in {"idle", "run"}
        /\ ThreadsIdle
        /\ flag[f]
        /\ started' = TRUE
        /\ vPflags' = pfl
        /\ bindCalls' = [bindCalls EXCEPT ![f] = IF BindNeeded(bindOnce[f])
                                                 THEN @ + 1 ELSE @]
        /\ bindOnce' = [bindOnce EXCEPT ![f] = TRUE]
        /\ last' = [op |-> op, f |-> f, fn |-> fn, vd |-> vd,
                    calledFn |-> r.calledFn, calledVd |-> r.calledVd,
                    v |-> r.v, err |-> r.err, raw |-> raw,
                    bound |-> BindNeeded(bindOnce[f]), panic |-> FALSE]
        /\ UNCHANGED <<app, env, flag, handleVars, cmdVars, viperCfg, initVars, pc,
                       initRuns, cliPassed, thr, bindMu, registryVars>>

\* a getter of a flag that was never registered (s.flag is nil): the bind fails
\* and noError panics inside bindOnce.Do, which consumes the sync.Once all the
\* same; a later call skips the bind and reads the unbound key
GetterUnregistered(op, f) ==
    LET attempt == BindNeeded(bindOnce[f])
        err == IF attempt THEN "flag is nil" ELSE "nil"
        panics == noError(err)
        raw == ViperGet(f, vPflags)
        r == IF op = "GetE" THEN GetXE(f, "nil", "nil", raw)
                            ELSE GetX(f, "nil", "nil", raw)
    IN  /\ pc.at \in {"idle", "run"}
        /\ ThreadsIdle
        /\ f \in app \ DirectFlags
        /\ ~flag[f]
        /\ bindCalls' = [bindCalls EXCEPT ![f] = IF attempt THEN @ + 1 ELSE @]
        /\ bindOnce' = [bindOnce EXCEPT ![f] = TRUE]
        /\ last' = IF panics
                   THEN [NoCall EXCEPT !.op = op, !.f = f, !.panic = TRUE,
                                       !.bound = attempt]
                   ELSE [op |-> op, f |-> f, fn |-> "nil", vd |-> "nil",
                         calledFn |-> r.calledFn, calledVd |-> r.calledVd,
                         v |-> r.v, err |-> r.err, raw |-> raw,
                         bound |-> attempt, panic |-> FALSE]
        /\ UNCHANGED <<app, started, env, flag, handleVars, cmdVars, vPflags,
                       viperCfg, initVars, pc, initRuns, cliPassed, thr, bindMu, registryVars>>

GetValue(f, hooks) == \E fn \in hooks, vd \in hooks : Getter("Get", f, fn, vd)

GetValueE(f, hooks) == \E fn \in hooks, vd \in hooks : Getter("GetE", f, fn, vd)

(***************************************************************************)
(* Getters called from several goroutines: sync.Once.Do step by step       *)
(***************************************************************************)
\* the getter is entered; Once.Do loads done: the fast path skips the mutex
ThreadCall(t, f) ==
    /\ thr[t].at = "idle"
    /\ pc.at \in {"idle", "run"}
    /\ flag[f]
    /\ started' = TRUE
    /\ thr' = [thr EXCEPT ![t] = [at |-> IF bindOnce[f] THEN "read" ELSE "slow",
                                  f |-> f, v |-> VNil, slow |-> ~bindOnce[f]]]
    /\ last' = NoCall
    /\ UNCHANGED <<app, env, flag, handleVars, cmdVars, vPflags, viperCfg,
                   initVars, bindOnce, pc, ghostVars, bindMu, registryVars>>

\* a plausible slip: a check-then-act latch that takes no lock
MutexFreeAlways(holder) == TRUE

\* sync.Mutex.Lock succeeds only while nobody holds the mutex
MutexFree(holder) == holder = 0

\* doSlow: o.m.Lock(), then done is looked at again under the lock
ThreadLock(t) ==
    LET f == thr[t].f
    IN  /\ thr[t].at = "slow"
        /\ MutexFree(bindMu[f])
        /\ IF bindOnce[f]
           THEN /\ thr' = [thr EXCEPT ![t].at = "read"]
                /\ UNCHANGED bindMu
           ELSE /\ thr' = [thr EXCEPT ![t].at = "bind"]
                /\ bindMu' = [bindMu EXCEPT ![f] = t]
        /\ UNCHANGED <<app, started, env, flag, handleVars, cmdVars, vPflags,
                       viperCfg, initVars, bindOnce, pc, last, ghostVars, registryVars>>

\* the function given to Do: noError(viper.BindPFlag(viperKey, s.flag))
ThreadBind(t) ==
    LET f == thr[t].f
    IN  /\ thr[t].at = "bind"
        /\ vPflags' = BindPFlag(vPflags, getViperKey(f), f)
        /\ bindCalls' = [bindCalls EXCEPT ![f] = @ + 1]
        /\ thr' = [thr EXCEPT ![t].at = "store"]
        /\ UNCHANGED <<app, started, env, flag, handleVars, cmdVars, viperCfg,
                       initVars, bindOnce, pc, last, initRuns, cliPassed, bindMu, registryVars>>

\* the deferred o.done.Store(1) and o.m.Unlock()
ThreadStore(t) ==
    LET f == thr[t].f
    IN  /\ thr[t].at = "store"
        /\ bindOnce' = [bindOnce EXCEPT ![f] = TRUE]
        /\ bindMu' = [bindMu EXCEPT ![f] = 0]
        /\ thr' = [thr EXCEPT ![t].at = "read"]
        /\ UNCHANGED <<app, started, env, flag, handleVars, cmdVars, vPflags,
                       viperCfg, initVars, pc, last, ghostVars, registryVars>>

\* return viper.GetX(viperKey)
ThreadRead(t) ==
    /\ thr[t].at = "read"
    /\ thr' = [thr EXCEPT ![t].at = "done", ![t].v = ViperGet(thr[t].f, vPflags)]
    /\ UNCHANGED <<app, started, env, flag, handleVars, cmdVars, vPflags,
                   viperCfg, initVars, bindOnce, pc, last, ghostVars, bindMu, registryVars>>

(***************************************************************************)
(* CobraOnInitialize called from several goroutines, statement by          *)
(* statement.  The registry of latches is accessed between Lock and Unlock *)
(* of initOnceMutex; the help function of the command and cobra's list of  *)
(* initializers are read and written with no lock                          *)
(***************************************************************************)
InitSteps == {"lock", "lookup", "create", "unlock", "helpFunc", "setHelpFunc",
              "onInitialize", "append"}

\* the call is entered
ThreadInitCall(t, envPrefix, command) ==
    /\ thr[t].at = "idle"
    /\ pc.at = "idle"
    /\ \A u \in Threads : thr[u].at \in {"idle"} \cup InitSteps
    /\ Len(initializers) + Cardinality({ u \in Threads : thr[u].at \in InitSteps })
          < MaxInitCalls
    /\ started' = TRUE
    /\ thr' = [thr EXCEPT ![t] = [at |-> "lock", f |-> None, v |-> VNil,
                                  slow |-> FALSE, envPrefix |-> envPrefix,
                                  command |-> command, once |-> 0,
                                  fn |-> <<>>, inits |-> <<>>]]
    /\ last' = NoCall
    /\ UNCHANGED <<app, env, flag, handleVars, cmdVars, vPflags, viperCfg,
                   initVars, bindOnce, pc, ghostVars, bindMu, registryVars>>

\* a plausible slip: the registry is accessed without its lock
MutexNotTaken(holder) == TRUE

\* initOnceMutex.Lock()
InitMutexFree(holder) == holder = 0

ThreadInitLock(t) ==
    /\ thr[t].at = "lock"
    /\ InitMutexFree(initOnceMutex)
    /\ initOnceMutex' = t
    /\ thr' = [thr EXCEPT ![t].at = "lookup"]
    /\ UNCHANGED <<app, started, env, flag, handleVars, cmdVars, vPflags, viperCfg,
                   initVars, bindOnce, pc, last, ghostVars, bindMu, onceObjs>>

\* initOnce, ok := initOnceMap[command]
ThreadInitLookup(t) ==
    LET held == onceObjs[OnceKey(thr[t].command)].held
    IN  /\ thr[t].at = "lookup"
        /\ thr' = [thr EXCEPT ![t].once = held,
                              ![t].at = IF held = 0 THEN "create" ELSE "unlock"]
        /\ UNCHANGED <<app, started, env, flag, handleVars, cmdVars, vPflags,
                       viperCfg, initVars, bindOnce, pc, last, ghostVars, bindMu,
                       registryVars>>

\* if !ok: initOnce = &sync.Once{}; initOnceMap[command] = initOnce
ThreadInitCreate(t) ==
    LET key == OnceKey(thr[t].command)
    IN  /\ thr[t].at = "create"
        /\ onceObjs' = [onceObjs EXCEPT ![key] = StoreOnce(@)]
        /\ initOnceMap' = [initOnceMap EXCEPT ![key] = "new"]
        /\ thr' = [thr EXCEPT ![t].once = onceObjs[key].made + 1,
                              ![t].at = "unlock"]
        /\ UNCHANGED <<app, started, env, flag, handleVars, cmdVars, vPflags,
                       viperCfg, initializers, helpFunc, bindOnce, pc, last,
                       ghostVars, bindMu, initOnceMutex>>

\* initOnceMutex.Unlock(): the caller goes on with the latch it obtained
ThreadInitUnlock(t) ==
    /\ thr[t].at = "unlock"
    /\ initOnceMutex' = 0
    /\ onceObjs' = [onceObjs EXCEPT
                      ![OnceKey(thr[t].command)] = ObtainOnce(@, thr[t].once)]
    /\ thr' = [thr EXCEPT ![t].at = "helpFunc"]
    /\ UNCHANGED <<app, started, env, flag, handleVars, cmdVars, vPflags, viperCfg,
                   initVars, bindOnce, pc, last, ghostVars, bindMu>>

\* fn := command.HelpFunc()
ThreadInitHelpFunc(t) ==
    /\ thr[t].at = "helpFunc"
    /\ thr' = [thr EXCEPT ![t].fn = HelpFuncOf(thr[t].command),
                          ![t].at = "setHelpFunc"]
    /\ UNCHANGED <<app, started, env, flag, handleVars, cmdVars, vPflags, viperCfg,
                   initVars, bindOnce, pc, last, ghostVars, bindMu, registryVars>>

\* command.SetHelpFunc(func ... { cobraInit(); fn(...) })
ThreadInitSetHelpFunc(t) ==
    LET cobraInit == [envPrefix |-> thr[t].envPrefix, command |-> thr[t].command]
    IN  /\ thr[t].at = "setHelpFunc"
        /\ helpFunc' = [helpFunc EXCEPT
                          ![thr[t].command] = SetHelpFunc(cobraInit, thr[t].fn)]
        /\ thr' = [thr EXCEPT ![t].at = "onInitialize"]
        /\ UNCHANGED <<app, started, env, flag, handleVars, cmdVars, vPflags,
                       viperCfg, initOnceMap, initializers, bindOnce, pc, last,
                       ghostVars, bindMu, registryVars>>

\* cobra.OnInitialize(cobraInit) reads cobra's list of initializers ...
ThreadInitOnInitialize(t) ==
    /\ thr[t].at = "onInitialize"
    /\ thr' = [thr EXCEPT ![t].inits = initializers, ![t].at = "append"]
    /\ UNCHANGED <<app, started, env, flag, handleVars, cmdVars, vPflags, viperCfg,
                   initVars, bindOnce, pc, last, ghostVars, bindMu, registryVars>>

\* ... and stores the list with cobraInit appended; the call returns
ThreadInitAppend(t) ==
    LET cobraInit == [envPrefix |-> thr[t].envPrefix, command |-> thr[t].command]
    IN  /\ thr[t].at = "append"
        /\ initializers' = Append(thr[t].inits, cobraInit)
        /\ thr' = [thr EXCEPT ![t] = ThreadIdle]
        /\ UNCHANGED <<app, started, env, flag, handleVars, cmdVars, vPflags,
                       viperCfg, initOnceMap, helpFunc, bindOnce, pc, last,
                       ghostVars, bindMu, registryVars>>

(***************************************************************************)
(* Specification                                                           *)
(***************************************************************************)
Next ==
    \/ \E f \in FlagIds : Register(f)
    \/ \E n \in EnvNames : \E val \in UNION { EnvArgs(FlagBase[f].typ) : f \in FlagIds } :
           Setenv(n, val)
    \/ \E p \in Prefixes, c \in Tree : CobraOnInitialize(p, c)
    \/ \E t \in Tree : \E passed \in SUBSET MergedFlags(t) : \E help \in BOOLEAN :
           ExecuteStart(t, passed, help)
    \/ CobraInitBegin
    \/ CobraInitSkip
    \/ PostInitCommands
    \/ CobraInitEnd
    \/ PreRunEnd
    \/ RunEnd
    \/ HelpRender
    \/ \E f \in FlagIds : GetValue(f, {"nil"})
    \/ \E f \in FlagIds : GetValueE(f, {"nil"})

Spec == Init /\ [][Next]_vars

\* one CobraOnInitialize of the root, executions without --help
SetUpAndRun ==
    \/ \E f \in FlagIds : Register(f)
    \/ \E n \in EnvNames : \E val \in UNION { EnvArgs(FlagBase[f].typ) : f \in FlagIds } :
           Setenv(n, val)
    \/ \E p \in Prefixes : initializers = <<>> /\ CobraOnInitialize(p, "root")
    \/ \E t \in Tree : \E passed \in SUBSET MergedFlags(t) :
           ExecuteStart(t, passed, FALSE)
    \/ CobraInitBegin
    \/ CobraInitSkip
    \/ PostInitCommands
    \/ CobraInitEnd
    \/ PreRunEnd
    \/ RunEnd

\* getters of the main goroutine with every combination of validation hooks
NextValidate ==
    \/ SetUpAndRun
    \/ \E f \in FlagIds : GetValue(f, Hooks)
    \/ \E f \in FlagIds : GetValueE(f, Hooks)

SpecValidate == Init /\ [][NextValidate]_vars

\* getters called from several goroutines at once
NextConcurrent ==
    \/ SetUpAndRun
    \/ \E t \in Threads, f \in FlagIds : ThreadCall(t, f)
    \/ \E t \in Threads : ThreadLock(t)
    \/ \E t \in Threads : ThreadBind(t)
    \/ \E t \in Threads : ThreadStore(t)
    \/ \E t \in Threads : ThreadRead(t)

SpecConcurrent == Init /\ [][NextConcurrent]_vars

\* CobraOnInitialize called from several goroutines for the root and the
\* subcommand, then executions and help renderings
NextRegistry ==
    \/ \E f \in FlagIds : Register(f)
    \/ \E t \in Threads, p \in Prefixes, c \in Tree : ThreadInitCall(t, p, c)
    \/ \E t \in Threads : ThreadInitLock(t)
    \/ \E t \in Threads : ThreadInitLookup(t)
    \/ \E t \in Threads : ThreadInitCreate(t)
    \/ \E t \in Threads : ThreadInitUnlock(t)
    \/ \E t \in Threads : ThreadInitHelpFunc(t)
    \/ \E t \in Threads : ThreadInitSetHelpFunc(t)
    \/ \E t \in Threads : ThreadInitOnInitialize(t)
    \/ \E t \in Threads : ThreadInitAppend(t)
    \/ \E t \in Tree, help \in BOOLEAN : ExecuteStart(t, {}, help)
    \/ CobraInitBegin
    \/ CobraInitSkip
    \/ PostInitCommands
    \/ CobraInitEnd
    \/ PreRunEnd
    \/ RunEnd
    \/ HelpRender

SpecRegistry == InitOf({{"port"}}) /\ [][NextRegistry]_vars

\* applications whose flag is persistent or required, on the root or on the
\* subcommand: registered, initialized once, executed
AppsTree == { {f} : f \in {"verbose", "trace", "host", "secret"} }

SpecTree == InitOf(AppsTree) /\ [][SetUpAndRun]_vars

\* applications that register a flag of every persistent/required combination,
\* or two flags of one name, and may call a getter before Register
AppsRegister == { {"port"}, {"verbose"}, {"host"}, {"force"}, {"port", "dup"} }

NextRegister ==
    \/ SetUpAndRun
    \/ \E f \in FlagIds : GetValue(f, {"nil"})
    \/ \E f \in FlagIds : GetValueE(f, {"nil"})
    \/ \E f \in FlagIds, op \in {"Get", "GetE"} : GetterUnregistered(op, f)

SpecRegister == InitOf(AppsRegister) /\ [][NextRegister]_vars

\* applications with a flag declared through this package under a custom key,
\* or with pflag directly (one of them under an excluded name)
AppsDirect == { {f} : f \in {"raw", "help", "level", "cfg"} }

NextDirect ==
    \/ \E f \in FlagIds : AddFlag(f)
    \/ SetUpAndRun

SpecDirect == InitOf(AppsDirect) /\ [][NextDirect]_vars

\* the tree walk is straight-line code of one goroutine: once begun it goes on
SpecTreeFair ==
    /\ SpecTree
    /\ WF_vars(PostInitCommands)
    /\ WF_vars(CobraInitEnd)

\* an application with two independent root commands, each passed once to
\* CobraOnInitialize with its own prefix
Roots == { c \in Cmds : Parent[c] = None /\ c \in DOMAIN RootPrefix }

NextRoots ==
    \/ \E f \in FlagIds : Register(f)
    \/ \E c \in Roots :
           /\ \A i \in 1..Len(initializers) : initializers[i].command # c
           /\ CobraOnInitialize(RootPrefix[c], c)
    \/ \E t \in Roots : \E passed \in SUBSET MergedFlags(t) : \E help \in BOOLEAN :
           ExecuteStart(t, passed, help)
    \/ CobraInitBegin
    \/ CobraInitSkip
    \/ PostInitCommands
    \/ CobraInitEnd
    \/ PreRunEnd
    \/ RunEnd
    \/ HelpRender

SpecRoots == InitOf({{"port", "tag"}}) /\ [][NextRoots]_vars

\* an application that registers a flag named "port" on the root and another
\* flag named "port" on the subcommand, and calls their getters
NextKeys ==
    \/ SetUpAndRun
    \/ \E f \in FlagIds : GetValue(f, {"nil"})

SpecKeys == InitOf({{"port", "sport"}}) /\ [][NextKeys]_vars

\* an application that calls CobraOnInitialize for its root more than once,
\* with one prefix or with different ones, then executes it or renders its help
NextPrefixes ==
    \/ \E f \in FlagIds : Register(f)
    \/ \E c \in DOMAIN RootPrefix : CobraOnInitialize(RootPrefix[c], "root")
    \/ \E help \in BOOLEAN : ExecuteStart("root", {}, help)
    \/ CobraInitBegin
    \/ CobraInitSkip
    \/ PostInitCommands
    \/ CobraInitEnd
    \/ PreRunEnd
    \/ RunEnd
    \/ HelpRender

SpecPrefixes == InitOf({{"port"}, {"level"}}) /\ [][NextPrefixes]_vars

(***************************************************************************)
(* Properties                                                              *)
(***************************************************************************)
\* C1: for every registered flag, however many getter calls (plain or E) were
\* made, viper.BindPFlag ran exactly once for it, on the first of them: never
\* before a getter call, once after the first, and a later call adds none.
C1_BindExactlyOnce ==
    /\ \A f \in FlagIds : bindCalls[f] = IF bindOnce[f] THEN 1 ELSE 0
    /\ last.op \in {"Get", "GetE"} => /\ bindCalls[last.f] = 1
                           /\ vPflags[ToLower(getViperKey(last.f))] = last.f

\* a getter call that was not the first one for its flag has returned
C1_Witness ==
    /\ last.op \in {"Get", "GetE"}
    /\ ~last.bound
    /\ bindCalls[last.f] = 1

\* C2: when getters of one flag are called from several goroutines, the bind
\* runs at most once, at most one caller is inside it, no caller reads before
\* the bind is complete, and the callers that returned hold the same value.
C2_ConcurrentBindOnce ==
    /\ \A f \in FlagIds : bindCalls[f] <= 1
    /\ \A t, u \in Threads :
          (t # u /\ thr[t].f = thr[u].f /\ thr[t].at \in {"bind", "store"})
              => thr[u].at \notin {"bind", "store", "read", "done"}
    /\ \A t \in Threads :
          thr[t].at \in {"read", "done"}
              => /\ bindCalls[thr[t].f] = 1
                 /\ bindOnce[thr[t].f]
                 /\ vPflags[ToLower(getViperKey(thr[t].f))] = thr[t].f
    /\ \A t, u \in Threads :
          (thr[t].at = "done" /\ thr[u].at = "done" /\ thr[t].f = thr[u].f)
              => thr[t].v = thr[u].v

\* two goroutines that both found the flag unbound on entry have returned
C2_Witness ==
    \E t, u \in Threads :
        /\ t # u
        /\ thr[t].at = "done" /\ thr[u].at = "done"
        /\ thr[t].f = thr[u].f
        /\ thr[t].slow /\ thr[u].slow
        /\ bindCalls[thr[t].f] = 1
        /\ hChanged[thr[t].f]

\* the one-time initialization of the root ran to its end with prefix p
InitializedWith(p) == initOnceMap["root"] = "done" /\ vEnvPrefix = p

\* the environment variable the usage hint of flag f names under prefix p
DerivedEnvName(p, f) == EnvVarName(p, getViperKey(f))

\* that variable holds a non-empty value
EnvHolds(name) == env[name].set /\ env[name].val # <<>>

\* v is what the command line alone gives flag f (a slice flag passed on
\* several executions accumulates the command-line elements)
IsCliValue(f, v) ==
    LET typ == FlagBase[f].typ
    IN  IF typ = "stringSlice"
        THEN /\ v.t = "list"
             /\ v.l # <<>>
             /\ \A i \in 1..Len(v.l) : v.l[i] = CliArg(typ)
        ELSE v = SetValue(typ, FlagBase[f].Value, FALSE, CliArg(typ))

\* C3: for every registered flag, with or without a custom key, after the
\* root's initialization and an execution that passed the flag on the command
\* line while its derived environment variable holds a different non-empty
\* value, the getter returns the command-line value, not the environment one.
C3_CliOverridesEnv ==
    \A p \in Prefixes :
        ( /\ last.op \in {"Get", "GetE"}
          /\ InitializedWith(p)
          /\ cliPassed[last.f]
          /\ EnvHolds(DerivedEnvName(p, last.f))
          /\ env[DerivedEnvName(p, last.f)].val # CliArg(FlagBase[last.f].typ) )
        => IsCliValue(last.f, last.v)

\* C4: for every registered flag (flag-name key or custom key, with '.' or
\* '-', on the root or a subcommand, persistent or not), after the root's
\* initialization and executions that never passed the flag, a well-formed
\* non-empty value of the environment variable upper(P_K') is what the getter
\* returns, not the default.
C4_EnvPrecedence ==
    \A p \in Prefixes :
        LET f == last.f
            typ == FlagBase[f].typ
            e == env[DerivedEnvName(p, f)].val
        IN  ( /\ last.op \in {"Get", "GetE"}
              /\ InitializedWith(p)
              /\ ~cliPassed[f]
              /\ EnvHolds(DerivedEnvName(p, f))
              /\ SetOk(typ, e) )
            => last.v = SetValue(typ, FlagBase[f].Value, FALSE, e)

\* the naming contract, character by character: upper case throughout, with
\* every '.' and '-' of the key turned into '_'
ContractChar(c) == IF c \in {".", "-"} THEN "_" ELSE UpperChar(c)

ContractName(p, k) ==
    [i \in 1..Len(p) |-> UpperChar(p[i])] \o <<"_">>
    \o [i \in 1..Len(k) |-> ContractChar(k[i])]

\* the hint " [env: <name>]"
Hint(name) == <<" ","[","e","n","v",":"," ">> \o name \o <<"]">>

\* s is made of at most n hints, each naming the contract's variable for key k
RECURSIVE HintsOnly(_, _, _)
HintsOnly(k, s, n) ==
    \/ s = <<>>
    \/ /\ n > 0
       /\ \E p \in Prefixes :
             LET h == Hint(ContractName(p, k))
             IN  /\ Len(s) >= Len(h)
                 /\ SubSeq(s, 1, Len(h)) = h
                 /\ HintsOnly(k, SubSeq(s, Len(h) + 1, Len(s)), n - 1)

\* C5: the name appended to a flag's usage text as " [env: <name>]" is
\* upper(P + "_" + K') with K' the key with '.' and '-' replaced by '_', for
\* the flag's key K (custom key if set, flag name otherwise); every registered
\* flag carries such a hint once the root's initialization is over, and the
\* usage text holds nothing but the original text and such hints.
C5_EnvNameBitExact ==
    \A f \in FlagIds :
        flag[f] =>
            LET u == FlagBase[f].Usage
                k == IF FlagBase[f].ViperKey # <<>>
                     THEN FlagBase[f].ViperKey ELSE FlagBase[f].Name
            IN  /\ Len(hUsage[f]) >= Len(u)
                /\ SubSeq(hUsage[f], 1, Len(u)) = u
                /\ HintsOnly(k, SubSeq(hUsage[f], Len(u) + 1, Len(hUsage[f])),
                             initRuns["root"] + initRuns["sub"])
                /\ initOnceMap["root"] = "done" => Len(hUsage[f]) > Len(u)

\* the flag whose key holds a '.' carries its hint
C5_Witness ==
    /\ flag["cfg"]
    /\ initOnceMap["root"] = "done"
    /\ hUsage["cfg"] = FlagBase["cfg"].Usage
                        \o <<" ","[","e","n","v",":"," ","A","P","P","_","A","_","C","]">>

C7_ValidatorIgnored ==
    (last.op = "GetE" /\ last.fn # "nil") => ~last.calledVd

\* C8: when validation fails GetXE returns the zero value of the flag's type
\* and exactly the failing hook's error; when it passes GetXE returns the
\* value read from the configuration source and a nil error.
C8_ZeroValueOnFailure ==
    last.op = "GetE" =>
        /\ last.raw = ViperGet(last.f, vPflags)
        /\ IF last.fn = "reject" \/ last.vd = "reject"
           THEN /\ last.v = Zero(FlagBase[last.f].typ)
                /\ last.err = IF last.fn = "reject" THEN "ValidateFunc error"
                                                    ELSE "Validator error"
           ELSE /\ last.v = last.raw
                /\ last.err = "nil"

\* a rejected value that was not the zero value came back as zero
C8_Witness ==
    /\ last.op = "GetE"
    /\ last.err # "nil"
    /\ last.raw # Zero(FlagBase[last.f].typ)
    /\ last.v = Zero(FlagBase[last.f].typ)
    /\ FlagBase[last.f].typ = "stringSlice"

\* C9: the plain GetX calls neither hook and returns what the configuration
\* source holds even when the hooks would reject it: the value GetXE returns
\* with hooks that accept.
C9_PlainGetterNeverValidates ==
    last.op = "Get" =>
        /\ ~last.calledFn /\ ~last.calledVd
        /\ last.err = "nil"
        /\ last.v = ViperGet(last.f, vPflags)
        /\ last.v = GetXE(last.f, "accept", "accept", ViperGet(last.f, vPflags)).v

\* the plain getter returned a non-zero value that both hooks would reject
C9_Witness ==
    /\ last.op = "Get"
    /\ last.fn = "reject" /\ last.vd = "reject"
    /\ last.v # Zero(FlagBase[last.f].typ)
    /\ last.v = last.raw

\* how far a command's latch is: no entry or an unconsumed sync.Once
\* (Uninitialized), inside the body (Initializing), consumed (Initialized)
OnceRank(once) ==
    CASE once = "absent" -> 0
      [] once = "new" -> 1
      [] once = "running" -> 2
      [] once = "done" -> 3

\* C10: per command the initialization moves only forward, Uninitialized to
\* Initializing to Initialized; its body is entered at most once however
\* often it is triggered; and a trigger that arrives once the command is
\* Initialized, or a further CobraOnInitialize call, changes no usage text,
\* no flag value and no setting of the configuration source.
C10_InitAtMostOnce ==
    /\ [](\A c \in Cmds :
            initRuns[c] = IF initOnceMap[c] \in {"running", "done"} THEN 1 ELSE 0)
    /\ [][ /\ \A c \in Cmds :
                OnceRank(initOnceMap'[c]) \in
                    { OnceRank(initOnceMap[c]), OnceRank(initOnceMap[c]) + 1 }
           /\ ( \/ AtClosure /\ initOnceMap[Closure.command] = "done"
                \/ initializers' # initializers )
               => UNCHANGED <<hUsage, hValue, hChanged, hAnnot, hRequired,
                              vPflags, vAutoEnv, vEnvPrefix, vReplacer,
                              initRuns>> ]_vars

\* a trigger arrives for a command that is Initialized and whose flags the
\* first initialization has annotated
C10_Witness ==
    /\ AtClosure
    /\ initOnceMap[Closure.command] = "done"
    /\ initRuns[Closure.command] = 1
    /\ \E f \in FlagIds : flag[f] /\ hUsage[f] # FlagBase[f].Usage

\* C11: whenever the run body of a command executes, the initialization of
\* every command set up with CobraOnInitialize is complete, and whenever the
\* help text of a command is rendered, the initialization of the command (its
\* own if it was set up, otherwise the one its help function is inherited
\* from) is complete: whichever of the two paths triggered it.
C11_InitBeforeRunAndHelp ==
    /\ pc.at = "run" =>
          \A i \in 1..Len(initializers) :
              initOnceMap[initializers[i].command] = "done"
    /\ (pc.at = "help" /\ pc.chain = <<>>) =>
          /\ initOnceMap[pc.target] # "absent" => initOnceMap[pc.target] = "done"
          /\ \A i \in 1..Len(HelpFuncOf(pc.target)) :
                initOnceMap[HelpFuncOf(pc.target)[i].command] = "done"

\* the help text is about to be rendered in an execution whose help function
\* was the one that ran the initialization, and the flags carry their hints
C11_Witness ==
    /\ pc.at = "help" /\ pc.chain = <<>>
    /\ pc.via = "help"
    /\ initOnceMap[pc.target] = "done"
    /\ \E f \in FlagIds : flag[f] /\ hUsage[f] # FlagBase[f].Usage

(***************************************************************************)
(* C12: the initialization latches are per root command.  With two roots   *)
(* each passed to CobraOnInitialize, a root's latch is consumed by that    *)
(* root's own initialization and by nothing else, every root whose closure *)
(* was triggered has been initialized exactly once, and a flag's usage     *)
(* text carries the hint built from its own root's prefix once that root   *)
(* is initialized and no hint before.                                      *)
(***************************************************************************)
RootOf(c) == IF Parent[c] = None THEN c ELSE Ancestors(c)[Len(Ancestors(c))]

C12_PerRootLatches ==
    /\ \A c \in Roots :
          /\ initRuns[c] <= 1
          /\ initRuns[c] = 1 <=> initOnceMap[c] \in {"running", "done"}
    /\ pc.at = "run" =>
          \A i \in 1..Len(initializers) : initRuns[initializers[i].command] = 1
    /\ (pc.at = "help" /\ pc.chain = <<>> /\ pc.target \in Roots) =>
          (initOnceMap[pc.target] # "absent" => initRuns[pc.target] = 1)
    /\ \A f \in Registered :
          LET r == RootOf(FlagBase[f].cmd)
              own == Hint(ContractName(RootPrefix[r], hAnnot[f]))
          IN  /\ initOnceMap[r] = "done" => hUsage[f] = FlagBase[f].Usage \o own
              /\ initOnceMap[r] \in {"absent", "new"} => hUsage[f] = FlagBase[f].Usage

\* root is initialized through its help while other's latch is still unused,
\* and the two usage texts show it
C12_Witness ==
    /\ initOnceMap["root"] = "done" /\ initOnceMap["other"] = "new"
    /\ initRuns["root"] = 1 /\ initRuns["other"] = 0
    /\ flag["port"] /\ flag["tag"]
    /\ hUsage["port"] # FlagBase["port"].Usage
    /\ hUsage["tag"] = FlagBase["tag"].Usage

(***************************************************************************)
(* C13: after the one initialization of the root, every flag handle of the *)
(* tree other than the excluded names has the environment hint appended to *)
(* its usage text exactly once, wherever in the tree it is declared and    *)
(* however many flag-sets hold it.                                         *)
(***************************************************************************)
C13_HintExactlyOnce ==
    initOnceMap["root"] = "done" =>
        \A f \in Registered :
            (FlagBase[f].cmd \in Tree /\ FlagBase[f].Name \notin noEnvFlags) =>
                hUsage[f] = FlagBase[f].Usage
                            \o Hint(ContractName(RootPrefix["root"], hAnnot[f]))

(***************************************************************************)
(* C14: for a flag registered as required, an execution whose flag-set     *)
(* holds it runs the command body only if the flag was passed on the       *)
(* command line or its derived environment variable holds a non-empty      *)
(* value; and when CobraOnInitialize was called and that variable holds a  *)
(* non-empty value, the execution does not end with the error that names   *)
(* the flag as not set.                                                    *)
(***************************************************************************)
C14_RequiredOutcome ==
    \A f \in Registered :
        FlagBase[f].Required =>
            LET name == DerivedEnvName(RootPrefix["root"], f)
            IN  /\ (pc.at = "run" /\ f \in cmdFlags[pc.target]) =>
                      (cliPassed[f] \/ EnvHolds(name))
                /\ (last.op = "Execute" /\ last.err # "nil" /\ last.f = f) =>
                      ~(initializers # <<>> /\ ~cliPassed[f] /\ EnvHolds(name))

(***************************************************************************)
(* C15: Register of a flag whose name is not taken succeeds without a      *)
(* panic for every combination of Persistent and Required: the flag is in  *)
(* the persistent flag-set of the command if Persistent and in the regular *)
(* one otherwise, and is marked required exactly if Required.              *)
(***************************************************************************)
NameClash(f) ==
    \E g \in Registered \ {f} :
        /\ FlagBase[g].cmd = FlagBase[f].cmd
        /\ FlagBase[g].Name = FlagBase[f].Name
        /\ FlagBase[g].Persistent = FlagBase[f].Persistent

C15_RegisterEveryCombination ==
    (last.op = "Register" /\ ~NameClash(last.f)) =>
        LET f == last.f
            cmd == FlagBase[f].cmd
        IN  /\ ~last.panic
            /\ flag[f]
            /\ FlagBase[f].Persistent => f \in cmdPFlags[cmd]
            /\ ~FlagBase[f].Persistent => f \in cmdFlags[cmd]
            /\ hRequired[f] = FlagBase[f].Required

(***************************************************************************)
(* C16: Register of a flag whose name is already registered on the same    *)
(* flag-set of the same command panics, and the first flag's registration  *)
(* stays as it was: its handle is the one in the flag-set, with its own    *)
(* default, usage text and key.                                            *)
(***************************************************************************)
C16_DuplicateNamePanics ==
    (last.op = "Register" /\ NameClash(last.f)) =>
        /\ last.panic
        /\ ~flag[last.f]
        /\ last.f \notin cmdFlags[FlagBase[last.f].cmd]
                          \cup cmdPFlags[FlagBase[last.f].cmd]
        /\ \A g \in Registered :
              FlagBase[g].Name = FlagBase[last.f].Name =>
                  /\ g \in cmdFlags[FlagBase[g].cmd] \cup cmdPFlags[FlagBase[g].cmd]
                  /\ hValue[g] = FlagBase[g].Value
                  /\ hUsage[g] = FlagBase[g].Usage
                  /\ hAnnot[g] = getViperKey(g)
                  /\ hRequired[g] = FlagBase[g].Required

\* port is registered, then dup under the same name
C16_Witness ==
    /\ last.op = "Register" /\ last.f = "dup" /\ last.panic
    /\ flag["port"] /\ ~flag["dup"]
    /\ hValue["port"] = FlagBase["port"].Value

(***************************************************************************)
(* C17: when the bind of a getter's one-time bind step returns an error    *)
(* (the handle is nil: the getter is called before Register), the getter   *)
(* panics and returns no value in that call.                               *)
(***************************************************************************)
C17_BindErrorPanics ==
    (last.op \in {"Get", "GetE"} /\ last.bound /\ ~flag[last.f]) =>
        /\ last.panic
        /\ last.v = VNil
        /\ last.err = "nil"

C17_Witness ==
    /\ last.op = "GetE" /\ last.bound /\ last.panic
    /\ ~flag[last.f]
    /\ bindOnce[last.f] /\ bindCalls[last.f] = 1

(***************************************************************************)
(* C18: for the uint8 flag, when the value held for its key as a 16-bit    *)
(* unsigned integer exceeds 255 the getters yield 255, and a value of      *)
(* 0..255 is returned unchanged.                                           *)
(***************************************************************************)
C18_Uint8Saturation ==
    (last.op \in {"Get", "GetE"} /\ ~last.panic /\ FlagBase[last.f].typ = "uint8") =>
        LET u16 == CastToUint16(Find(getViperKey(last.f), TRUE, vPflags,
                                     hValue, hChanged))
        IN  /\ last.err = "nil"
            /\ u16 > 255 => last.v = VInt(255)
            /\ u16 <= 255 => last.v = VInt(u16)

(***************************************************************************)
(* C19: the effective key of a flag is its ViperKey when that is not empty *)
(* and its Name otherwise; it depends on those two fields only; and the    *)
(* same key is stored as the handle's annotation at Register, bound to the *)
(* handle by the one-time bind and read by every getter call.              *)
(***************************************************************************)
EffectiveKey(f) ==
    IF FlagBase[f].ViperKey # <<>> THEN FlagBase[f].ViperKey ELSE FlagBase[f].Name

C19_KeyResolution ==
    /\ \A f \in FlagIds : getViperKey(f) = EffectiveKey(f)
    /\ \A f, g \in FlagIds :
          (FlagBase[f].ViperKey = FlagBase[g].ViperKey
           /\ FlagBase[f].Name = FlagBase[g].Name) => getViperKey(f) = getViperKey(g)
    /\ \A f \in Registered : hAnnot[f] = EffectiveKey(f)
    /\ \A f \in Registered :
          bindOnce[f] => vPflags[ToLower(EffectiveKey(f))] = f
    /\ (last.op \in {"Get", "GetE"} /\ ~last.panic) =>
          last.raw = ViperGetKey(EffectiveKey(last.f), FlagBase[last.f].typ, vPflags)

\* a second getter call of the flag with a custom key, after an execution
C19_Witness ==
    /\ last.op = "Get" /\ last.f = "level" /\ ~last.bound
    /\ initOnceMap["root"] = "done"
    /\ hAnnot["level"] = <<"s","-","l">>
    /\ vPflags[<<"s","-","l">>] = "level"
    /\ last.raw = ViperGetKey(<<"s","-","l">>, "uint8", vPflags)

(***************************************************************************)
(* C20: a getter of a registered flag that no source has set - it was      *)
(* never passed on the command line and every environment variable of the  *)
(* flag is unset or empty - returns the declared default, before any       *)
(* execution as well as after one.                                         *)
(***************************************************************************)
C20_DefaultWhenUnset ==
    (last.op \in {"Get", "GetE"} /\ ~last.panic) =>
        LET f == last.f
        IN  ( /\ flag[f]
              /\ ~cliPassed[f]
              /\ \A n \in EnvNamesOf(f) : ~EnvHolds(n) )
            => (last.v = FlagBase[f].Value /\ last.err = "nil")

\* the variable is set to the empty string, an execution is over, the getter
\* returns the default
C20_Witness ==
    /\ last.op = "Get" /\ last.f = "port"
    /\ ~cliPassed["port"]
    /\ initOnceMap["root"] = "done" /\ pc.at = "idle"
    /\ env[DerivedEnvName(RootPrefix["root"], "port")] = [set |-> TRUE, val |-> <<>>]
    /\ last.v = VInt(8080)

(***************************************************************************)
(* C21: Register stores the flag's effective key on the handle; a handle   *)
(* declared outside this package carries none.  Initialization builds the  *)
(* handle's environment hint from the stored key and looks the stored key  *)
(* up for pre-seeding, and for a handle without one it uses the flag name. *)
(***************************************************************************)
\* the variable viper consults for key k under prefix p with the '-' -> '_'
\* replacer: upper case of p, "_" and k, every '-' turned into '_'
ConsultedName(p, k) ==
    [i \in 1..(Len(p) + 1 + Len(k)) |->
        LET c == IF i <= Len(p) THEN p[i]
                 ELSE IF i = Len(p) + 1 THEN "_" ELSE k[i - Len(p) - 1]
        IN  IF c = "-" THEN "_" ELSE UpperChar(c)]

C21_StoredKeyUsed ==
    /\ \A f \in Registered : hAnnot[f] = getViperKey(f)
    /\ \A f \in Direct : hAnnot[f] = <<>>
    /\ initOnceMap["root"] = "done" =>
          \A f \in Registered \cup Direct :
              LET k == IF f \in Registered THEN getViperKey(f) ELSE FlagBase[f].Name
                  n == ConsultedName(RootPrefix["root"], k)
              IN  FlagBase[f].Name \notin noEnvFlags =>
                    /\ hUsage[f] = FlagBase[f].Usage
                                    \o Hint(ContractName(RootPrefix["root"], k))
                    /\ ~cliPassed[f] =>
                          (hChanged[f] <=> ( /\ n \in DOMAIN env
                                             /\ EnvHolds(n)
                                             /\ SetOk(FlagBase[f].typ, env[n].val) ))

\* the flag with a custom key is pre-seeded from the variable of that key
C21_Witness ==
    /\ initOnceMap["root"] = "done"
    /\ flag["level"] /\ ~cliPassed["level"]
    /\ hAnnot["level"] = <<"s","-","l">>
    /\ hUsage["level"] = FlagBase["level"].Usage
                          \o <<" ","[","e","n","v",":"," ","A","P","P","_","S","_","L","]">>
    /\ hChanged["level"] /\ hValue["level"] = VInt(9)

(***************************************************************************)
(* C22: a flag named "help" is skipped by the per-flag work of             *)
(* initialization on whatever command it is: its usage text stays as       *)
(* declared and its value is never pre-seeded, so a flag not passed on the *)
(* command line keeps its default whatever the environment holds.          *)
(***************************************************************************)
C22_ExcludedFlagsSkipped ==
    \A f \in Registered \cup Direct :
        FlagBase[f].Name = <<"h","e","l","p">> =>
            /\ hUsage[f] = FlagBase[f].Usage
            /\ ~cliPassed[f] => (~hChanged[f] /\ hValue[f] = FlagBase[f].Value)

\* the variable of the help flag holds "true" and the tree was walked
C22_Witness ==
    /\ "help" \in Direct
    /\ initOnceMap["root"] = "done"
    /\ vPflags[<<"h","e","l","p">>] = "help"
    /\ EnvHolds(ConsultedName(RootPrefix["root"], <<"h","e","l","p">>))
    /\ ~cliPassed["help"] /\ hValue["help"] = VBool(FALSE)
    /\ hUsage["help"] = FlagBase["help"].Usage

(***************************************************************************)
(* C23: the tree walk of one initialization is depth-first pre-order and   *)
(* total.  The commands whose flag-set has been bulk-bound so far are a    *)
(* prefix of the pre-order listing of the tree under the initialized       *)
(* command, none of them twice and each after all its ancestors within the *)
(* walk; when the walk is over they are all the commands of that tree; and *)
(* a walk that has begun ends.                                             *)
(***************************************************************************)
RECURSIVE PreOrder(_)
PreOrder(cs) ==
    IF cs = <<>> THEN <<>>
    ELSE <<Head(cs)>> \o PreOrder(Commands[Head(cs)]) \o PreOrder(Tail(cs))

Below(c) == { d \in Cmds : d = c \/ c \in Range(Ancestors(d)) }

C23_WalkPreOrderTotal ==
    /\ [](pc.at = "init" =>
            LET all == PreOrder(<<pc.command>>)
                n == Len(pc.done)
            IN  /\ n <= Len(all)
                /\ pc.done = SubSeq(all, 1, n)
                /\ \A i, j \in 1..n : i # j => pc.done[i] # pc.done[j]
                /\ \A i, j \in 1..n :
                      pc.done[i] \in Range(Ancestors(pc.done[j])) => i < j
                /\ pc.walk = <<>> => Range(pc.done) = Below(pc.command))
    /\ (pc.at = "init") ~> (pc.at # "init")

\* the walk of root is over: root, sub, leaf, aux in this order
C23_Witness ==
    /\ pc.at = "init" /\ pc.walk = <<>>
    /\ pc.done = <<"root", "sub", "leaf", "aux">>

(***************************************************************************)
(* C24: the registry of latches is read and written under initOnceMutex    *)
(* only, so when CobraOnInitialize is called from several goroutines, for  *)
(* one command or for different ones, at most one sync.Once is ever made   *)
(* per command, every caller for a command obtains that one, no two        *)
(* goroutines are between Lock and Unlock at once, and the initialization  *)
(* body of a command runs at most once.                                    *)
(***************************************************************************)
C24_RegistryUnderMutex ==
    LET InCritical ==
            { t \in Threads : thr[t].at \in {"lookup", "create", "unlock"} }
    IN  /\ Cardinality(InCritical) <= 1
        /\ \A t \in InCritical : initOnceMutex = t
        /\ \A c \in Cmds :
              /\ onceObjs[c].made <= 1
              /\ onceObjs[c].got \subseteq {1}
              /\ onceObjs[c].held = onceObjs[c].made
              /\ initRuns[c] <= 1
        /\ \A t \in Threads :
              thr[t].at \in {"helpFunc", "setHelpFunc", "onInitialize", "append"}
                  => thr[t].once = 1

\* two goroutines are inside CobraOnInitialize for root at once: one has left
\* the critical section with the latch it made, the other found that latch in
\* the map and is about to unlock
C24_Witness ==
    \E t, u \in Threads :
        /\ t # u
        /\ thr[t].at = "unlock" /\ thr[t].command = "root" /\ thr[t].once = 1
        /\ thr[u].at = "setHelpFunc" /\ thr[u].command = "root"
        /\ onceObjs["root"].made = 1

(***************************************************************************)
(* C25: the environment-variable name that initialization writes into a    *)
(* flag's usage text is the name the configuration source consults for the *)
(* flag's key under the prefix and the key-replacement rule that the        *)
(* initialization installed, for every key, those with '.' or '-' included. *)
(***************************************************************************)
C25_HintNamesConsultedVariable ==
    \A f \in Registered :
        hUsage[f] # FlagBase[f].Usage =>
            LET consulted == EnvKeyReplace(vReplacer,
                                 MergeWithEnvPrefix(vEnvPrefix, ToLower(getViperKey(f))))
                h == Hint(consulted)
                n == Len(hUsage[f])
            IN  /\ vAutoEnv
                /\ n >= Len(h)
                /\ SubSeq(hUsage[f], n - Len(h) + 1, n) = h

(***************************************************************************)
(* C26: once a getter of a flag has bound the flag's key to the flag's own *)
(* handle, the key stays associated with that handle whatever else this    *)
(* layer does (Register, getters of other flags, the bulk bind of          *)
(* initialization), so every later getter call of the flag reads the value *)
(* of its own handle.                                                      *)
(***************************************************************************)
C26_KeyStaysWithHandle ==
    \A f \in Registered :
        bindOnce[f] => vPflags[ToLower(getViperKey(f))] = f

(***************************************************************************)
(* C27: a flag's one-shot bind latch is consumed only when the bind of the *)
(* flag's key to its handle succeeded: a consumed latch means the flag has *)
(* a handle and its key is bound, and a getter call that panicked because  *)
(* the bind failed has left the latch unconsumed, so that a getter call     *)
(* made after Register still binds.                                        *)
(***************************************************************************)
C27_LatchConsumedOnlyBySuccess ==
    /\ \A f \in FlagIds :
          bindOnce[f] => /\ flag[f]
                         /\ vPflags[ToLower(getViperKey(f))] # None
    /\ (last.op \in {"Get", "GetE"} /\ last.panic) => ~bindOnce[last.f]
    /\ (last.op \in {"Get", "GetE"} /\ ~last.panic /\ flag[last.f])
          => vPflags[ToLower(getViperKey(last.f))] # None

(***************************************************************************)
(* C28: whatever CobraOnInitialize calls were made on commands of one tree *)
(* (on the root and on a subcommand, say) and whatever executions and help *)
(* renderings followed, the usage text of a flag is the declared text with *)
(* the " [env: ...]" suffix appended at most once.                         *)
(***************************************************************************)
C28_SuffixAtMostOnce ==
    \A f \in Registered :
        hUsage[f] \in {FlagBase[f].Usage}
                      \cup { NewUsage(FlagBase[f].Usage, EnvVarName(p, getViperKey(f))) :
                               p \in Prefixes }

(***************************************************************************)
(* C29: the initialization of a root command is triggered only by the      *)
(* execution or the help rendering of that root's own tree: while one root *)
(* is executed or renders help, the initialization body that runs, and so  *)
(* the latch it consumes and the usage texts and values it writes, is that *)
(* of the executed root and of no other root.                              *)
(***************************************************************************)
C29_OtherRootsUntouched ==
    pc.at = "init" => pc.command = RootOf(pc.target)

(***************************************************************************)
(* C30: when CobraOnInitialize was called more than once for a command,    *)
(* with different prefixes, the prefix that the command's one              *)
(* initialization applies (set on the configuration source, used in the    *)
(* usage hints) does not depend on what triggered it: the closure that the *)
(* on-initialize hooks reach first for the command and the closure that    *)
(* the command's help function reaches first carry the same prefix, and    *)
(* that is the prefix the running initialization has installed.            *)
(***************************************************************************)
C30_PrefixIndependentOfTrigger ==
    pc.at = "init" =>
        LET mine(cl) == cl.command = pc.command
            hook == Head(SelectSeq(initializers, mine))
            help == Head(SelectSeq(HelpFuncOf(pc.command), mine))
        IN  /\ hook.envPrefix = help.envPrefix
            /\ vEnvPrefix = hook.envPrefix
            /\ pc.envPrefix = hook.envPrefix

====
